---- MODULE Spec2Model ----
(***************************************************************************)
(* Model of the beehive-monitoring dashboard (src/app.py): the module      *)
(* level dataset cache data_df, the two InfluxDB readers load_all_data and *)
(* load_since, and the Dash callback update_data_store that merges newly   *)
(* fetched rows into the cache and mirrors it into the dcc.Store.          *)
(*                                                                         *)
(* Strings are tuples of character codes so that str.startswith and the    *)
(* lexicographic order used by sort_values are computed, not assumed.      *)
(***************************************************************************)
EXTENDS Integers, Sequences, FiniteSets, TLC

VARIABLES
    source,      \* rows of the InfluxDB measurement, in the order a query returns them
    prefix,      \* the configured DEVICE_PREFIX_FILTER ("" disables the filter)
    phase,       \* "import" (module body not yet run), "serving", "crashed"
    data_df,     \* the global cache (a DataFrame: a sequence of rows)
    store,       \* the data of dcc.Store "data-store" (records with time as text)
    raised,      \* TRUE iff the last call let an exception escape
    lastOp,      \* history: what the last completed call did
    prev_df,     \* history: data_df when the last call started
    lastRaw,     \* history: the rows the last query returned
    pc,          \* per worker thread: position inside update_data_store
    new_df,      \* per worker thread: the local new_df of update_data_store
    pre_df,      \* history, per worker thread: data_df read by pd.concat
    old_rows,    \* history: the rows now held by the frame data_df named
                 \* when the last call started
    inOrder,     \* history: no fetch failed, every timestamp was valid and no
                 \* row arrived with a time below the watermark
    table,       \* the data of the DataTable "device-table"
    selected_rows,   \* selected_rows of "device-table" (<<>> is None)
    selected_device, \* the data of dcc.Store "selected-device" (<<>> is None)
    plots,       \* children of "device-title" and "plots-container"
    pending,     \* callbacks the browser has triggered and not yet run
    frame,       \* a device series handed to infer_parameter_columns
    params       \* what infer_parameter_columns returned for frame

vars == <<source, prefix, phase, data_df, store, raised, lastOp, prev_df,
          lastRaw, pc, new_df, pre_df, old_rows, inOrder, table,
          selected_rows, selected_device, plots, pending, frame, params>>

----------------------------------------------------------------------------
\* Bounds of the model

\* timestamps in the source are 1..MaxTime
MaxTime == 2
\* number of rows the source holds at most (sequential specification)
MaxSource == 2
\* number of rows the source holds at most (threaded specification)
MaxSourceThreads == 1
\* number of worker threads that run the callback at the same time
NumThreads == 2
\* number of rows the source holds at most (dashboard specification)
MaxSourceDash == 2
\* number of columns and of rows of the frames infer_parameter_columns reads
MaxCols == 2
MaxRows == 1

----------------------------------------------------------------------------
\* Configuration (src/app.py:20-21)

\* "satellite"
DEVICE_PREFIX_FILTER == <<115, 97, 116, 101, 108, 108, 105, 116, 101>>

\* START_TIME, the lower bound of the full query, as a point of 1..MaxTime
START_TIME == 1

\* "satellite-1", "satellite-2", "gateway-1"
Satellite1 == DEVICE_PREFIX_FILTER \o <<45, 49>>
Satellite2 == DEVICE_PREFIX_FILTER \o <<45, 50>>
Gateway1 == <<103, 97, 116, 101, 119, 97, 121, 45, 49>>

Devices == {Satellite1, Satellite2, Gateway1}

\* pandas' NaT, the result of coercing a missing or unparseable timestamp
NaT == 0

\* The _time of a row as the source delivers it: a timestamp, or a value
\* that is none (absent, or a text that does not parse); to_datetime treats
\* the two alike.
RawTimes ==
    {[kind |-> "ts", t |-> n] : n \in 1..MaxTime}
        \cup {[kind |-> "invalid", t |-> 0]}

\* What a device reports: its identifier and the time of the observation.
\* The field "counter" is the running number of the uplink, set on arrival.
Uplinks == [device : Devices, _time : RawTimes]

RawRow(u, n) == [device |-> u.device, _time |-> u._time, counter |-> n]

----------------------------------------------------------------------------
\* pandas / str helpers

\* str.startswith
StartsWith(s, p) ==
    /\ Len(p) <= Len(s)
    /\ \A i \in 1..Len(p) : s[i] = p[i]

\* Python's < on str: lexicographic on code points
RECURSIVE StrLess(_, _)
StrLess(a, b) ==
    IF b = <<>> THEN FALSE
    ELSE IF a = <<>> THEN TRUE
    ELSE IF Head(a) # Head(b) THEN Head(a) < Head(b)
    ELSE StrLess(Tail(a), Tail(b))

\* pd.to_datetime(x, errors="coerce", utc=True)
ToDatetime(raw) == IF raw.kind = "ts" THEN raw.t ELSE NaT

\* rename(columns={"_time": "time"}) followed by the to_datetime coercion
Normalize(r) ==
    [device |-> r.device, time |-> ToDatetime(r._time), counter |-> r.counter]

\* the rename and the coercion on every row of a frame
NormalizeRows(df) == [i \in 1..Len(df) |-> Normalize(df[i])]

\* the (device, time) identity of a row
Key(r) == <<r.device, r.time>>

Keys(df) == {Key(df[i]) : i \in 1..Len(df)}

\* Series.max(): NaT is skipped, an all-NaT column gives NaT
MaxOf(S) == IF S = {} THEN NaT ELSE CHOOSE m \in S : \A x \in S : x <= m

TimeMax(df) == MaxOf({df[i].time : i \in 1..Len(df)} \ {NaT})

\* order of sort_values(by=["device","time"]): NaT goes last (na_position)
TimeLess(a, b) == a # NaT /\ (b = NaT \/ a < b)

RowLess(a, b) ==
    \/ StrLess(a.device, b.device)
    \/ a.device = b.device /\ TimeLess(a.time, b.time)

\* Variant: drop_duplicates(..., keep=False), which drops every row of a
\* repeated key instead of keeping the first.
DropDuplicates_KeepFalse(df) ==
    LET once(i) == \A j \in 1..Len(df) : Key(df[j]) = Key(df[i]) => j = i
        F[i \in 0..Len(df)] ==
            IF i = 0 THEN <<>>
            ELSE IF once(i) THEN Append(F[i - 1], df[i]) ELSE F[i - 1]
    IN  F[Len(df)]

\* Variant: drop_duplicates(..., keep="last"), which keeps the last row of
\* a repeated key, at the place of the last.
DropDuplicates_KeepLast(df) ==
    LET last(i) == \A j \in (i + 1)..Len(df) : Key(df[j]) # Key(df[i])
        F[i \in 0..Len(df)] ==
            IF i = 0 THEN <<>>
            ELSE IF last(i) THEN Append(F[i - 1], df[i]) ELSE F[i - 1]
    IN  F[Len(df)]

\* drop_duplicates(subset=["device","time"]): keeps the first row of a key
RECURSIVE DropDuplicates(_)
DropDuplicates(df) ==
    IF df = <<>> THEN <<>>
    ELSE LET init == DropDuplicates(SubSeq(df, 1, Len(df) - 1))
             last == df[Len(df)]
         IN  IF Key(last) \in Keys(init) THEN init ELSE Append(init, last)

\* inserts a row behind the rows that are not greater (stable)
RECURSIVE InsertSorted(_, _)
InsertSorted(df, r) ==
    IF df = <<>> THEN <<r>>
    ELSE IF RowLess(r, Head(df)) THEN <<r>> \o df
    ELSE <<Head(df)>> \o InsertSorted(Tail(df), r)

\* sort_values(by=["device","time"])
RECURSIVE SortValues(_)
SortValues(df) ==
    IF df = <<>> THEN <<>>
    ELSE InsertSorted(SortValues(SubSeq(df, 1, Len(df) - 1)), df[Len(df)])

----------------------------------------------------------------------------
\* The data source (query_api.query_data_frame)

\* Variant: a lower bound that excludes the boundary time itself.
RECURSIVE QueryRange_Exclusive(_, _)
QueryRange_Exclusive(src, lo) ==
    IF src = <<>> THEN <<>>
    ELSE IF Head(src)._time.kind # "ts" \/ Head(src)._time.t > lo
         THEN <<Head(src)>> \o QueryRange_Exclusive(Tail(src), lo)
         ELSE QueryRange_Exclusive(Tail(src), lo)

\* range(start: lo): rows from lo on; a row without a usable _time cannot
\* be excluded by the bound
RECURSIVE QueryRange(_, _)
QueryRange(src, lo) ==
    IF src = <<>> THEN <<>>
    ELSE IF Head(src)._time.kind # "ts" \/ Head(src)._time.t >= lo
         THEN <<Head(src)>> \o QueryRange(Tail(src), lo)
         ELSE QueryRange(Tail(src), lo)

\* df[df["device"].astype(str).str.startswith(p)]
RECURSIVE DeviceStartsWith(_, _)
DeviceStartsWith(df, p) ==
    IF df = <<>> THEN <<>>
    ELSE IF StartsWith(Head(df).device, p)
         THEN <<Head(df)>> \o DeviceStartsWith(Tail(df), p)
         ELSE DeviceStartsWith(Tail(df), p)

\* Variant: the filter line left out.
PrefixFilter_Off(df, p) == df

\* the device-prefix filter of both readers: skipped for the empty prefix
PrefixFilter(df, p) == IF p # <<>> THEN DeviceStartsWith(df, p) ELSE df

\* load_all_data on a query result raw
load_all_data(raw, p) ==
    IF raw = <<>> THEN <<>>
    ELSE PrefixFilter(NormalizeRows(raw), p)

\* load_since on a query result raw
load_since(raw, p) ==
    IF raw = <<>> THEN <<>>
    ELSE PrefixFilter(NormalizeRows(raw), p)

\* Timestamp.isoformat() / astype(str)
TimeToStr(t) == IF t = NaT THEN <<"NaT">> ELSE <<"iso", t>>

\* df_tmp.to_dict(orient="records") with time rendered as text
ToStoreRecords(df) ==
    [i \in 1..Len(df) |->
        [device |-> df[i].device, time |-> TimeToStr(df[i].time),
         counter |-> df[i].counter]]

\* Variant: the merge without the drop_duplicates line.
MergeStep_NoDedup(df, new) ==
    IF new # <<>> THEN SortValues(df \o new) ELSE df

\* the merge of update_data_store: concat, drop_duplicates, sort_values,
\* skipped when the fetch brought no row
MergeStep(df, new) ==
    IF new # <<>> THEN SortValues(DropDuplicates(df \o new)) ELSE df

----------------------------------------------------------------------------
Threads == 1..NumThreads

\* the layout before any callback has written "device-title" and
\* "plots-container" (lines 168-169)
InitialChildren ==
    [title |-> "", device |-> <<>>, series |-> <<>>, graphs |-> <<>>]

\* a DataFrame with no column and no row
EmptyFrame == [cols |-> <<>>, rows |-> <<>>]

Init ==
    /\ source = <<>>
    /\ prefix \in {<<>>, DEVICE_PREFIX_FILTER}
    /\ phase = "import"
    /\ data_df = <<>>
    /\ store = <<>>
    /\ raised = FALSE
    /\ lastOp = "none"
    /\ prev_df = <<>>
    /\ lastRaw = <<>>
    /\ pc = [t \in Threads |-> "idle"]
    /\ new_df = [t \in Threads |-> <<>>]
    /\ pre_df = [t \in Threads |-> <<>>]
    /\ old_rows = <<>>
    /\ inOrder = TRUE
    /\ table = <<>>
    /\ selected_rows = <<>>
    /\ selected_device = <<>>
    /\ plots = InitialChildren
    /\ pending = {}
    /\ frame = EmptyFrame
    /\ params = <<>>

threadVars == <<pc, new_df, pre_df>>

\* the browser side and infer_parameter_columns' own input and output
viewVars == <<table, selected_rows, selected_device, plots, pending, frame,
              params>>

\* Frames as objects.  A heap is the frames that exist, in the order they
\* were made, and cur, the one the global name data_df is bound to.
HeapOf(df) == [cur |-> 1, objs |-> <<df>>]

\* Variant: the new rows are added to the frame data_df names, with no new
\* frame made.
ConcatFrame_InPlace(h, new) ==
    [h EXCEPT !.objs[h.cur] = h.objs[h.cur] \o new]

\* line 243: data_df = pd.concat([data_df, new_df]) makes a new frame and
\* binds the name to it
ConcatFrame(h, new) ==
    [cur |-> Len(h.objs) + 1, objs |-> Append(h.objs, h.objs[h.cur] \o new)]

\* line 244: drop_duplicates(inplace=True) on the frame the name is bound to
DropDuplicatesInPlace(h) ==
    [h EXCEPT !.objs[h.cur] = DropDuplicates(h.objs[h.cur])]

\* line 245: sort_values(inplace=True) on the frame the name is bound to
SortValuesInPlace(h) ==
    [h EXCEPT !.objs[h.cur] = SortValues(h.objs[h.cur])]

\* lines 242-245 on the heap
MergeFrames(h, new) ==
    IF new # <<>>
    THEN SortValuesInPlace(DropDuplicatesInPlace(ConcatFrame(h, new)))
    ELSE h

\* the rows of the frame that held df, once lines 242-245 have run
OldFrameAfterMerge(df, new) == MergeFrames(HeapOf(df), new).objs[1]

\* TRUE while the arrival u keeps the history in order: a valid timestamp
\* that is not below the watermark of the cache
InOrderArrival(u) ==
    /\ inOrder
    /\ u._time.kind = "ts"
    /\ phase = "import" \/ u._time.t >= TimeMax(data_df)

\* A device writes a row to the measurement.
SourceAppend ==
    /\ Len(source) < MaxSource
    /\ \E u \in Uplinks :
          /\ source' = Append(source, RawRow(u, Len(source) + 1))
          /\ inOrder' = InOrderArrival(u)
    /\ UNCHANGED <<prefix, phase, data_df, store, raised, lastOp, prev_df,
                   lastRaw, old_rows, threadVars, viewVars>>

\* Module body, line 90: data_df = load_all_data().  A failing query raises
\* out of the import and the process never serves.
ModuleLoad ==
    /\ phase = "import"
    /\ prev_df' = data_df
    /\ old_rows' = data_df
    /\ \/ /\ lastRaw' = QueryRange(source, START_TIME)
          /\ data_df' = load_all_data(lastRaw', prefix)
          /\ phase' = "serving"
          /\ raised' = FALSE
          /\ lastOp' = "load_ok"
          /\ inOrder' = inOrder
       \/ /\ lastRaw' = <<>>
          /\ data_df' = data_df
          /\ phase' = "crashed"
          /\ raised' = TRUE
          /\ lastOp' = "load_fail"
          /\ inOrder' = FALSE
    /\ UNCHANGED <<source, prefix, store, threadVars, viewVars>>

\* Variant: no branch for the empty cache, so that the empty cache takes the
\* incremental path, whose query fails on the watermark NaT.
UpdateEmptyCycle_NoReload ==
    /\ phase = "serving"
    /\ data_df = <<>>
    /\ prev_df' = data_df
    /\ old_rows' = data_df
    /\ lastRaw' = <<>>
    /\ data_df' = data_df
    /\ store' = ToStoreRecords(data_df')
    /\ raised' = FALSE
    /\ lastOp' = "advance_fail"
    /\ inOrder' = FALSE
    /\ UNCHANGED <<source, prefix, phase, threadVars>>

\* update_data_store, lines 235-236: the cache is empty, full reload.  The
\* call is outside the try block: a failing query raises out of the callback
\* and the store is not written.
UpdateEmptyCycle ==
    /\ phase = "serving"
    /\ data_df = <<>>
    /\ prev_df' = data_df
    /\ old_rows' = data_df
    /\ \/ /\ lastRaw' = QueryRange(source, START_TIME)
          /\ data_df' = load_all_data(lastRaw', prefix)
          /\ store' = ToStoreRecords(data_df')
          /\ raised' = FALSE
          /\ lastOp' = "boot_ok"
          /\ inOrder' = inOrder
       \/ /\ lastRaw' = <<>>
          /\ data_df' = data_df
          /\ store' = store
          /\ raised' = TRUE
          /\ lastOp' = "boot_fail"
          /\ inOrder' = FALSE
    /\ UNCHANGED <<source, prefix, phase, threadVars>>

\* Variant: the incremental fetch outside any try block, so that a failing
\* query leaves the callback as an exception.
UpdateAdvance_NoTry ==
    /\ phase = "serving"
    /\ data_df # <<>>
    /\ prev_df' = data_df
    /\ LET last_time == TimeMax(data_df) IN
       \/ /\ last_time # NaT
          /\ lastRaw' = QueryRange(source, last_time)
          /\ data_df' = MergeStep(data_df, load_since(lastRaw', prefix))
          /\ old_rows' = OldFrameAfterMerge(data_df, load_since(lastRaw', prefix))
          /\ store' = ToStoreRecords(data_df')
          /\ raised' = FALSE
          /\ lastOp' = "advance_ok"
          /\ inOrder' = inOrder
       \/ /\ lastRaw' = <<>>
          /\ data_df' = data_df
          /\ old_rows' = data_df
          /\ store' = store
          /\ raised' = TRUE
          /\ lastOp' = "advance_fail"
          /\ inOrder' = FALSE
    /\ UNCHANGED <<source, prefix, phase, threadVars>>

\* update_data_store, lines 237-251: incremental fetch and merge.  The query
\* fails when the backend does, and always when the watermark is NaT (the
\* text "NaT" is no Flux time); the except clause swallows the error.
UpdateAdvanceCycle ==
    /\ phase = "serving"
    /\ data_df # <<>>
    /\ prev_df' = data_df
    /\ LET last_time == TimeMax(data_df) IN
       \/ /\ last_time # NaT
          /\ lastRaw' = QueryRange(source, last_time)
          /\ data_df' = MergeStep(data_df, load_since(lastRaw', prefix))
          /\ old_rows' = OldFrameAfterMerge(data_df, load_since(lastRaw', prefix))
          /\ lastOp' = "advance_ok"
          /\ inOrder' = inOrder
       \/ /\ lastRaw' = <<>>
          /\ data_df' = data_df
          /\ old_rows' = data_df
          /\ lastOp' = "advance_fail"
          /\ inOrder' = FALSE
    /\ store' = ToStoreRecords(data_df')
    /\ raised' = FALSE
    /\ UNCHANGED <<source, prefix, phase, threadVars>>

\* update_data_store on an empty cache, the browser side left aside
UpdateEmpty == UpdateEmptyCycle /\ UNCHANGED viewVars

\* update_data_store on a non-empty cache, the browser side left aside
UpdateAdvance == UpdateAdvanceCycle /\ UNCHANGED viewVars

Next ==
    \/ SourceAppend
    \/ ModuleLoad
    \/ UpdateEmpty
    \/ UpdateAdvance

Spec == Init /\ [][Next]_vars

----------------------------------------------------------------------------
\* update_data_store line by line, run by the worker threads of the server
\* (one request per browser tab and interval tick).  Every statement reads
\* the global name data_df anew; the in-place calls change the frame the
\* global names at that moment.

\* A device writes a row to the measurement (threaded specification).
SourceAppendThreads ==
    /\ Len(source) < MaxSourceThreads
    /\ \E u \in Uplinks : source' = Append(source, RawRow(u, Len(source) + 1))
    /\ UNCHANGED <<prefix, phase, data_df, store, raised, lastOp, prev_df,
                   lastRaw, threadVars, old_rows, inOrder, viewVars>>

\* line 235: if data_df is None or data_df.empty
T_Check(t) ==
    /\ phase = "serving"
    /\ pc[t] = "idle"
    /\ pc' = [pc EXCEPT ![t] = IF data_df = <<>> THEN "l236" ELSE "l239"]
    /\ UNCHANGED <<source, prefix, phase, data_df, store, raised, lastOp,
                   prev_df, lastRaw, new_df, pre_df>>
    /\ UNCHANGED <<old_rows, inOrder, viewVars>>

\* line 236: data_df = load_all_data(); an error leaves the callback
T_LoadAll(t) ==
    /\ pc[t] = "l236"
    /\ \/ /\ data_df' = load_all_data(QueryRange(source, START_TIME), prefix)
          /\ raised' = FALSE
          /\ pc' = [pc EXCEPT ![t] = "l248"]
       \/ /\ data_df' = data_df
          /\ raised' = TRUE
          /\ pc' = [pc EXCEPT ![t] = "idle"]
    /\ UNCHANGED <<source, prefix, phase, store, lastOp, prev_df, lastRaw,
                   new_df, pre_df>>
    /\ UNCHANGED <<old_rows, inOrder, viewVars>>

\* lines 239-241: the watermark and the incremental query; an error goes to
\* the except clause and from there to line 248
T_LoadSince(t) ==
    /\ pc[t] = "l239"
    /\ LET last_time == TimeMax(data_df) IN
       \/ /\ last_time # NaT
          /\ new_df' = [new_df EXCEPT
                          ![t] = load_since(QueryRange(source, last_time), prefix)]
          /\ pc' = [pc EXCEPT ![t] = "l242"]
       \/ /\ new_df' = new_df
          /\ pc' = [pc EXCEPT ![t] = "l248"]
    /\ UNCHANGED <<source, prefix, phase, data_df, store, raised, lastOp,
                   prev_df, lastRaw, pre_df>>
    /\ UNCHANGED <<old_rows, inOrder, viewVars>>

\* lines 242-243: if not new_df.empty: data_df = pd.concat([data_df, new_df])
T_Concat(t) ==
    /\ pc[t] = "l242"
    /\ IF new_df[t] # <<>>
       THEN /\ data_df' = data_df \o new_df[t]
            /\ pre_df' = [pre_df EXCEPT ![t] = data_df]
            /\ pc' = [pc EXCEPT ![t] = "l244"]
       ELSE /\ data_df' = data_df
            /\ pre_df' = pre_df
            /\ pc' = [pc EXCEPT ![t] = "l248"]
    /\ UNCHANGED <<source, prefix, phase, store, raised, lastOp, prev_df,
                   lastRaw, new_df>>
    /\ UNCHANGED <<old_rows, inOrder, viewVars>>

\* line 244: data_df.drop_duplicates(subset=["device","time"], inplace=True)
T_DropDuplicates(t) ==
    /\ pc[t] = "l244"
    /\ data_df' = DropDuplicates(data_df)
    /\ pc' = [pc EXCEPT ![t] = "l245"]
    /\ UNCHANGED <<source, prefix, phase, store, raised, lastOp, prev_df,
                   lastRaw, new_df, pre_df>>
    /\ UNCHANGED <<old_rows, inOrder, viewVars>>

\* line 245: data_df.sort_values(by=["device","time"], inplace=True)
T_SortValues(t) ==
    /\ pc[t] = "l245"
    /\ data_df' = SortValues(data_df)
    /\ pc' = [pc EXCEPT ![t] = "l248"]
    /\ UNCHANGED <<source, prefix, phase, store, raised, lastOp, prev_df,
                   lastRaw, new_df, pre_df>>
    /\ UNCHANGED <<old_rows, inOrder, viewVars>>

\* lines 248-251: the copy of data_df is returned into the data store
T_Return(t) ==
    /\ pc[t] = "l248"
    /\ store' = ToStoreRecords(data_df)
    /\ raised' = FALSE
    /\ pc' = [pc EXCEPT ![t] = "idle"]
    /\ new_df' = [new_df EXCEPT ![t] = <<>>]
    /\ pre_df' = [pre_df EXCEPT ![t] = <<>>]
    /\ UNCHANGED <<source, prefix, phase, data_df, lastOp, prev_df, lastRaw>>
    /\ UNCHANGED <<old_rows, inOrder, viewVars>>

NextThreads ==
    \/ SourceAppendThreads
    \/ ModuleLoad
    \/ \E t \in Threads : T_Check(t)
    \/ \E t \in Threads : T_LoadAll(t)
    \/ \E t \in Threads : T_LoadSince(t)
    \/ \E t \in Threads : T_Concat(t)
    \/ \E t \in Threads : T_DropDuplicates(t)
    \/ \E t \in Threads : T_SortValues(t)
    \/ \E t \in Threads : T_Return(t)

SpecThreads == Init /\ [][NextThreads]_vars

----------------------------------------------------------------------------
\* Parameter inference (lines 32-39, 182-191)

FIELDS ==
    <<"version", "release", "counter", "hoursUptime", "almanacValidFrom",
      "satId", "temperature", "pressure", "humidity", "batteryVoltage",
      "booleanData", "hall", "userButton", "automatedMode">>

NON_PARAM_COLS == {"time", "device", "automatedMode"}

\* the elements of a sequence
Range(seq) == {seq[i] : i \in 1..Len(seq)}

\* [x for x in seq if x in S]
RECURSIVE Select(_, _)
Select(seq, S) ==
    IF seq = <<>> THEN <<>>
    ELSE IF Head(seq) \in S THEN <<Head(seq)>> \o Select(Tail(seq), S)
    ELSE Select(Tail(seq), S)

\* pd.to_numeric(v, errors="coerce").notna(): a cell is absent ("nan"), a
\* text that is no number ("text") or a value that reads as a number ("num")
IsNumeric(v) == v = "num"

\* lines 185-188: the columns outside NON_PARAM_COLS with a numeric cell
NumericColumns(f) ==
    {c \in Range(f.cols) :
        /\ c \notin NON_PARAM_COLS
        /\ \E i \in 1..Len(f.rows) : IsNumeric(f.rows[i][c])}

\* Variant: the columns in the order of the frame, FIELDS not put first.
infer_parameter_columns_FrameOrder(f) ==
    IF f.rows = <<>> THEN <<>> ELSE Select(f.cols, NumericColumns(f))

\* infer_parameter_columns(df)
infer_parameter_columns(f) ==
    IF f.rows = <<>> THEN <<>>
    ELSE LET cols == Select(f.cols, NumericColumns(f))
             ordered == Select(FIELDS, Range(cols))
         IN  ordered \o Select(cols, Range(cols) \ Range(ordered))

----------------------------------------------------------------------------
\* infer_parameter_columns applied to the frames of a bounded size

ColNames == {"time", "automatedMode", "temperature", "humidity", "table", "result"}

Cells == {"nan", "text", "num"}

\* the sequences of distinct column names of length n
RECURSIVE ColSeqs(_)
ColSeqs(n) ==
    IF n = 0 THEN {<<>>}
    ELSE {Append(cs, c) : cs \in ColSeqs(n - 1), c \in ColNames} \cap
         {cs \in Seq(ColNames) : Len(cs) = n /\ Cardinality(Range(cs)) = n}

Frames ==
    UNION {UNION {[cols : {cs}, rows : [1..m -> [Range(cs) -> Cells]]] :
                     m \in 0..MaxRows} :
              cs \in UNION {ColSeqs(n) : n \in 0..MaxCols}}

InitInfer ==
    /\ frame \in Frames
    /\ params = <<>>
    /\ lastOp = "none"
    /\ source = <<>>
    /\ prefix = DEVICE_PREFIX_FILTER
    /\ phase = "import"
    /\ data_df = <<>>
    /\ store = <<>>
    /\ raised = FALSE
    /\ prev_df = <<>>
    /\ lastRaw = <<>>
    /\ pc = [t \in Threads |-> "idle"]
    /\ new_df = [t \in Threads |-> <<>>]
    /\ pre_df = [t \in Threads |-> <<>>]
    /\ old_rows = <<>>
    /\ inOrder = TRUE
    /\ table = <<>>
    /\ selected_rows = <<>>
    /\ selected_device = <<>>
    /\ plots = InitialChildren
    /\ pending = {}

\* line 303: params = infer_parameter_columns(df_dev)
InferParameterColumns ==
    /\ lastOp = "none"
    /\ params' = infer_parameter_columns(frame)
    /\ lastOp' = "infer"
    /\ UNCHANGED <<source, prefix, phase, data_df, store, raised, prev_df,
                   lastRaw, old_rows, inOrder, threadVars, table,
                   selected_rows, selected_device, plots, pending, frame>>

NextInfer == InferParameterColumns

SpecInfer == InitInfer /\ [][NextInfer]_vars

----------------------------------------------------------------------------
\* The derived views (lines 253-312)

\* pd.to_datetime(text, errors="coerce", utc=True) on a time of the store
StrToTime(txt) == IF txt[1] = "iso" THEN txt[2] ELSE NaT

\* Series.dt.strftime: a text for a time, NaN for NaT
StrfTime(t) == IF t = NaT THEN <<"NaN">> ELSE <<"fmt", t>>

\* pd.DataFrame(store_records) with the time column parsed (lines 259-261,
\* 294-297)
StoreFrame(records) ==
    [i \in 1..Len(records) |->
        [device |-> records[i].device, time |-> StrToTime(records[i].time),
         counter |-> records[i].counter]]

\* inserts a row behind the rows whose time is not greater (stable)
RECURSIVE InsertByTime(_, _)
InsertByTime(df, r) ==
    IF df = <<>> THEN <<r>>
    ELSE IF TimeLess(r.time, Head(df).time) THEN <<r>> \o df
    ELSE <<Head(df)>> \o InsertByTime(Tail(df), r)

\* sort_values("time"): NaT last; rows of equal time keep their order (the
\* sort of numpy is an insertion sort on frames of this size)
RECURSIVE SortByTime(_)
SortByTime(df) ==
    IF df = <<>> THEN <<>>
    ELSE InsertByTime(SortByTime(SubSeq(df, 1, Len(df) - 1)), df[Len(df)])

\* groupby("device").tail(1): the last row of every device, in frame order
TailPerDevice(df) ==
    LET last(i) == \A j \in (i + 1)..Len(df) : df[j].device # df[i].device
        F[i \in 0..Len(df)] ==
            IF i = 0 THEN <<>>
            ELSE IF last(i) THEN Append(F[i - 1], df[i]) ELSE F[i - 1]
    IN  F[Len(df)]

\* inserts a row in front of the first row of a greater device
RECURSIVE InsertByDevice(_, _)
InsertByDevice(df, r) ==
    IF df = <<>> THEN <<r>>
    ELSE IF StrLess(r.device, Head(df).device) THEN <<r>> \o df
    ELSE <<Head(df)>> \o InsertByDevice(Tail(df), r)

\* sort_values("device")
RECURSIVE SortByDevice(_)
SortByDevice(df) ==
    IF df = <<>> THEN <<>>
    ELSE InsertByDevice(SortByDevice(SubSeq(df, 1, Len(df) - 1)), df[Len(df)])

\* update_device_table(store_records)
update_device_table(records) ==
    IF records = <<>> THEN <<>>
    ELSE LET latest == SortByDevice(TailPerDevice(SortByTime(StoreFrame(records))))
         IN  [i \in 1..Len(latest) |->
                [device |-> latest[i].device,
                 last_seen |-> StrfTime(latest[i].time)]]

\* what stands for a callback that raised instead of returning
Raised == <<"raised">>

\* Variant: without the guard for an empty table, table_data[0] raises.
select_device_NoGuard(rows, table_data) ==
    IF table_data = <<>> THEN Raised
    ELSE IF rows = <<>> THEN table_data[1].device
    ELSE LET idx == IF rows[1] < Len(table_data) - 1
                    THEN rows[1] ELSE Len(table_data) - 1
         IN  table_data[(IF idx > 0 THEN idx ELSE 0) + 1].device

\* select_device(selected_rows, table_data); <<>> is None, rows count from 0
select_device(rows, table_data) ==
    IF table_data = <<>> THEN <<>>
    ELSE IF rows = <<>> THEN table_data[1].device
    ELSE LET idx == IF rows[1] < Len(table_data) - 1
                    THEN rows[1] ELSE Len(table_data) - 1
         IN  table_data[(IF idx > 0 THEN idx ELSE 0) + 1].device

\* df[df["device"] == device_id]
RECURSIVE DeviceRows(_, _)
DeviceRows(df, d) ==
    IF df = <<>> THEN <<>>
    ELSE IF Head(df).device = d THEN <<Head(df)>> \o DeviceRows(Tail(df), d)
    ELSE DeviceRows(Tail(df), d)

\* Variant: the rows of the device in the order of the store, not sorted.
SeriesFor_Unsorted(records, d) == DeviceRows(StoreFrame(records), d)

\* lines 294-298: the rows of the device, by time
SeriesFor(records, d) == SortByTime(DeviceRows(StoreFrame(records), d))

\* a device series as the frame infer_parameter_columns reads
SeriesFrame(series) ==
    [cols |-> <<"time", "device", "counter">>,
     rows |-> [i \in 1..Len(series) |->
                 [time |-> "text", device |-> "text", counter |-> "num"]]]

\* render_device_plots(device_id, store_records).  The title of line 311
\* formats the least time of the series: for a series of NaT only,
\* NaT.strftime raises.
render_device_plots(device_id, records) ==
    IF device_id = <<>> \/ records = <<>>
    THEN [title |-> "No device selected.", device |-> <<>>,
          series |-> <<>>, graphs |-> <<>>]
    ELSE LET df_dev == SeriesFor(records, device_id) IN
         IF df_dev = <<>>
         THEN [title |-> "No data for this device (yet).",
               device |-> device_id, series |-> <<>>, graphs |-> <<>>]
         ELSE IF df_dev[1].time = NaT
         THEN [title |-> "raised", device |-> device_id,
               series |-> <<>>, graphs |-> <<>>]
         ELSE [title |-> "samples", device |-> device_id, series |-> df_dev,
               graphs |-> infer_parameter_columns(SeriesFrame(df_dev))]

----------------------------------------------------------------------------
\* The dashboard in one browser tab: the poll cycle and the callbacks it and
\* the user trigger.  A callback runs when one of its Inputs is written; a
\* State is only read.

InitDash ==
    /\ source = <<>>
    /\ prefix = DEVICE_PREFIX_FILTER
    /\ phase = "import"
    /\ data_df = <<>>
    /\ store = <<>>
    /\ raised = FALSE
    /\ lastOp = "none"
    /\ prev_df = <<>>
    /\ lastRaw = <<>>
    /\ pc = [t \in Threads |-> "idle"]
    /\ new_df = [t \in Threads |-> <<>>]
    /\ pre_df = [t \in Threads |-> <<>>]
    /\ old_rows = <<>>
    /\ inOrder = TRUE
    /\ table = <<>>
    /\ selected_rows = <<>>
    /\ selected_device = <<>>
    /\ plots = InitialChildren
    /\ pending = {"select_device"}
    /\ frame = EmptyFrame
    /\ params = <<>>

\* the rows the filter of the query lets through: the other rows never reach
\* the store the views read
DashUplinks == {u \in Uplinks : StartsWith(u.device, DEVICE_PREFIX_FILTER)}

\* A device writes a row to the measurement (dashboard specification).
SourceAppendDash ==
    /\ Len(source) < MaxSourceDash
    /\ \E u \in DashUplinks :
          /\ source' = Append(source, RawRow(u, Len(source) + 1))
          /\ inOrder' = InOrderArrival(u)
    /\ UNCHANGED <<prefix, phase, data_df, store, raised, lastOp, prev_df,
                   lastRaw, old_rows, threadVars, viewVars>>

\* what the return of update_data_store triggers: Output "data-store" is
\* the Input of update_device_table; a callback that raised writes nothing
StoreWritten ==
    /\ pending' = IF raised' THEN pending
                  ELSE pending \cup {"update_device_table"}
    /\ UNCHANGED <<table, selected_rows, selected_device, plots, frame, params>>

\* the interval fires on an empty cache
D_UpdateEmpty == UpdateEmptyCycle /\ StoreWritten

\* the interval fires on a non-empty cache
D_UpdateAdvance == UpdateAdvanceCycle /\ StoreWritten

serverVars == <<source, prefix, phase, data_df, store, raised, lastOp,
                prev_df, lastRaw, old_rows, inOrder, threadVars>>

\* lines 253-271: Output "device-table".data, which is no Input of any
\* callback
D_UpdateDeviceTable ==
    /\ "update_device_table" \in pending
    /\ table' = update_device_table(store)
    /\ pending' = pending \ {"update_device_table"}
    /\ UNCHANGED <<serverVars, selected_rows, selected_device, plots, frame,
                   params>>

\* the user ticks a row of the table
D_UserSelectsRow ==
    /\ \E i \in 0..(Len(table) - 1) :
          /\ selected_rows # <<i>>
          /\ selected_rows' = <<i>>
    /\ pending' = pending \cup {"select_device"}
    /\ UNCHANGED <<serverVars, table, selected_device, plots, frame, params>>

\* lines 273-283: Input selected_rows, State "device-table".data; Output
\* "selected-device" is the Input of render_device_plots
D_SelectDevice ==
    /\ "select_device" \in pending
    /\ LET d == select_device(selected_rows, table) IN
       IF d = Raised
       THEN /\ selected_device' = selected_device
            /\ pending' = pending \ {"select_device"}
       ELSE /\ selected_device' = d
            /\ pending' = (pending \ {"select_device"})
                              \cup {"render_device_plots"}
    /\ UNCHANGED <<serverVars, table, selected_rows, plots, frame, params>>

\* lines 285-312: Input "selected-device", State "data-store"
D_RenderDevicePlots ==
    /\ "render_device_plots" \in pending
    /\ LET r == render_device_plots(selected_device, store) IN
       plots' = IF r.title = "raised" THEN plots ELSE r
    /\ pending' = pending \ {"render_device_plots"}
    /\ UNCHANGED <<serverVars, table, selected_rows, selected_device, frame,
                   params>>

NextDash ==
    \/ SourceAppendDash
    \/ ModuleLoad
    \/ D_UpdateEmpty
    \/ D_UpdateAdvance
    \/ D_UpdateDeviceTable
    \/ D_UserSelectsRow
    \/ D_SelectDevice
    \/ D_RenderDevicePlots

SpecDash == InitDash /\ [][NextDash]_vars

----------------------------------------------------------------------------
\* Properties

OkOps == {"load_ok", "boot_ok", "advance_ok"}

NoDuplicateKeys(df) == Cardinality(Keys(df)) = Len(df)

IsSorted(df) == \A i \in 1..(Len(df) - 1) : ~RowLess(df[i + 1], df[i])

\* the rows the last incremental fetch handed to the merge
LastFetched == load_since(lastRaw, prefix)

\* C1: when the incremental fetch of a poll cycle fails, the cache after the
\* cycle is the cache before it (same rows, same order) and the callback
\* returns normally.
C1_FetchFailureSafety ==
    lastOp = "advance_fail" => data_df = prev_df /\ ~raised

\* a poll cycle on a non-empty cache failed although the watermark was a
\* proper time, while the source held a row the fetch would have added
C1_Witness ==
    /\ lastOp = "advance_fail"
    /\ prev_df # <<>>
    /\ TimeMax(prev_df) # NaT
    /\ Keys(load_since(QueryRange(source, TimeMax(prev_df)), prefix))
          \ Keys(prev_df) # {}

\* C2: no two rows of the cache share a (device, time) key, after the
\* initial load and after every poll cycle.
C2_NoDuplicateKeys ==
    phase = "serving" => NoDuplicateKeys(data_df)

\* C3: the cache is non-decreasing by (device, time) after the initial load
\* and after every poll cycle.
C3_SortInvariant ==
    phase = "serving" => IsSorted(data_df)

\* C4: a failing full fetch gives an empty cache, raises nothing to the
\* caller and leaves the process serving.
C4_BootstrapFailureDegrades ==
    lastOp \in {"load_fail", "boot_fail"} =>
        data_df = <<>> /\ ~raised /\ phase = "serving"

\* C5: while a thread is between its concat and the end of its sort, and
\* another thread is about to read the cache, the cache is either the frame
\* that thread merged into or the finished merge of it.
C5_AtomicPollCycle ==
    \A t \in Threads :
        pc[t] \in {"l244", "l245"} =>
            \A u \in Threads \ {t} :
                pc[u] \in {"idle", "l239", "l242", "l248"} =>
                    data_df \in {pre_df[t], MergeStep(pre_df[t], new_df[t])}

\* C6: after a successful incremental cycle on a non-empty cache the keys
\* of the cache are the keys it had plus the keys of the normalized,
\* filtered fetch result, and no key occurs twice.
C6_AdvanceMergeResult ==
    lastOp = "advance_ok" =>
        /\ Keys(data_df) = Keys(prev_df) \cup Keys(LastFetched)
        /\ NoDuplicateKeys(data_df)

\* the fetch re-returned a row of the boundary time that the cache held and
\* brought a new key as well
C6_Witness ==
    /\ lastOp = "advance_ok"
    /\ \E i \in 1..Len(LastFetched) :
          /\ LastFetched[i].time = TimeMax(prev_df)
          /\ Key(LastFetched[i]) \in Keys(prev_df)
    /\ Keys(LastFetched) \ Keys(prev_df) # {}

\* what an incremental fetch returns for the cache as it is now
NextFetched == load_since(QueryRange(source, TimeMax(data_df)), prefix)

\* the fetch results for every lower bound, and the empty one
FetchResults ==
    {load_since(QueryRange(source, lo), prefix) : lo \in 1..(MaxTime + 1)}
        \cup {<<>>}

\* C7: merging a fetch result into the cache a second time changes nothing,
\* merge(merge(D, F), F) = merge(D, F), for the cache D of any state and F
\* any fetch result (overlapping D or not, or empty).
C7_IdempotentMerge ==
    phase = "serving" =>
        \A F \in FetchResults :
            LET once == MergeStep(data_df, F)
            IN  MergeStep(once, F) = once

\* the fetch result for the cache's watermark overlaps the cache, brings a
\* new key, and its merge differs from the plain concatenation
C7_Witness ==
    /\ phase = "serving"
    /\ data_df # <<>>
    /\ NextFetched \in FetchResults
    /\ Keys(NextFetched) \cap Keys(data_df) # {}
    /\ Keys(NextFetched) \ Keys(data_df) # {}
    /\ MergeStep(data_df, NextFetched) # data_df \o NextFetched

\* C8: a call whose fetch succeeds never lowers the number of rows of the
\* cache (the source only ever gains rows).
C8_MonotonicGrowth ==
    [][lastOp' \in OkOps => Len(data_df') >= Len(data_df)]_vars

\* C9: no row of the cache has an absent or invalid time: a fetched row
\* whose timestamp is missing or unparseable is dropped.
C9_MalformedSkipped ==
    \A i \in 1..Len(data_df) : data_df[i].time # NaT

\* C10: with a non-empty prefix every row of the cache is of a device whose
\* name starts with it; with the empty prefix every row of the last
\* successful fetch has its key in the cache.
C10_DevicePrefixFilter ==
    /\ prefix # <<>> =>
          \A i \in 1..Len(data_df) : StartsWith(data_df[i].device, prefix)
    /\ prefix = <<>> /\ lastOp \in OkOps =>
          \A j \in 1..Len(lastRaw) : Key(Normalize(lastRaw[j])) \in Keys(data_df)

\* under the prefix "satellite" an incremental fetch returned a gateway-1
\* row next to the satellite row of the cache
C10_Witness ==
    /\ prefix = DEVICE_PREFIX_FILTER
    /\ lastOp = "advance_ok"
    /\ \E j \in 1..Len(lastRaw) : lastRaw[j].device = Gateway1
    /\ data_df # <<>>

\* what the full query returns, normalized and filtered
SourceRows == load_all_data(QueryRange(source, START_TIME), prefix)

\* C11: a poll cycle that starts on an empty cache and whose fetch succeeds
\* leaves the cache equal to what load_all_data gives for the source as it
\* is (the full range from START_TIME), so the cache becomes non-empty as
\* soon as the source has a matching row.
C11_EmptyAdvanceIsBootstrap ==
    [][(phase = "serving" /\ data_df = <<>> /\ source' = source /\ ~raised') =>
          /\ data_df' = SourceRows
          /\ SourceRows # <<>> => data_df' # <<>>]_vars

\* the process started with no matching row, and a later cycle on the empty
\* cache loaded the rows that had arrived
C11_Witness ==
    /\ lastOp = "boot_ok"
    /\ prev_df = <<>>
    /\ data_df # <<>>

PollOps == {"boot_ok", "boot_fail", "advance_ok", "advance_fail"}

C17_CompleteInOrder ==
    [][(phase = "serving" /\ data_df # <<>> /\ source' = source /\ inOrder') =>
          Keys(data_df') = Keys(SourceRows)]_vars

\* an in-order history in which an incremental cycle added a row
C17_Witness ==
    /\ inOrder
    /\ lastOp = "advance_ok"
    /\ Len(data_df) > Len(prev_df)

\* the first row of key k in a frame
FirstRow(df, k) ==
    df[CHOOSE i \in 1..Len(df) :
          /\ Key(df[i]) = k
          /\ \A j \in 1..(i - 1) : Key(df[j]) # k]

\* C18: a key of the cache stays in the cache, and the first row of the key
\* stays the same row, whatever a later cycle fetches for that key.
C18_StoredRowKept ==
    [][\A k \in Keys(data_df) :
          /\ k \in Keys(data_df')
          /\ FirstRow(data_df', k) = FirstRow(data_df, k)]_vars

\* an incremental cycle fetched a row with a key of the cache and another
\* counter value
C18_Witness ==
    /\ lastOp = "advance_ok"
    /\ \E i \in 1..Len(prev_df), j \in 1..Len(LastFetched) :
          /\ Key(LastFetched[j]) = Key(prev_df[i])
          /\ LastFetched[j].counter # FirstRow(prev_df, Key(prev_df[i])).counter

\* C19: the largest time of a non-empty cache, the lower bound of the next
\* incremental fetch, never gets smaller.
C19_WatermarkMonotonic ==
    [][data_df # <<>> => TimeMax(data_df') >= TimeMax(data_df)]_vars

\* a cycle moved the watermark forward
C19_Witness ==
    /\ lastOp = "advance_ok"
    /\ TimeMax(prev_df) # NaT
    /\ TimeMax(data_df) > TimeMax(prev_df)

\* the position of an element in a sequence that holds it
IndexOf(seq, x) == CHOOSE i \in 1..Len(seq) : seq[i] = x

\* the devices of a frame
DevicesOf(df) == {df[i].device : i \in 1..Len(df)}

\* how often a row stands in a frame
CountOf(df, r) == Cardinality({i \in 1..Len(df) : df[i] = r})

\* C13: once update_device_table has run on the store, the table has one
\* row for every device of the store, the row of a device shows the greatest
\* time of the records of that device, and the rows stand in ascending
\* order of device.
C13_SummaryLatestPerDevice ==
    ("update_device_table" \notin pending /\ lastOp \in {"boot_ok", "advance_ok"}) =>
        LET df == StoreFrame(store) IN
        /\ Len(table) = Cardinality(DevicesOf(df))
        /\ {table[i].device : i \in 1..Len(table)} = DevicesOf(df)
        /\ \A i \in 1..Len(table) :
              table[i].last_seen =
                  StrfTime(TimeMax(DeviceRows(df, table[i].device)))
        /\ \A i \in 1..(Len(table) - 1) :
              StrLess(table[i].device, table[i + 1].device)

\* C14: for every device, the series cut from the store holds the records
\* of that device and no other row, with times that never decrease (records
\* without a time last), whatever the order of the store; for a device
\* without records in a non-empty store the series is empty and
\* render_device_plots returns its "no data for this device" result and
\* does not raise.
C14_SeriesFor ==
    \A d \in Devices :
        LET df == StoreFrame(store)
            series == SeriesFor(store, d)
        IN  /\ \A i \in 1..Len(series) : series[i].device = d
            /\ \A i \in 1..Len(df) :
                  df[i].device = d => CountOf(series, df[i]) = CountOf(df, df[i])
            /\ Len(series) = Cardinality({i \in 1..Len(df) : df[i].device = d})
            /\ \A i \in 1..(Len(series) - 1) :
                  ~TimeLess(series[i + 1].time, series[i].time)
            /\ (store # <<>> /\ d \notin DevicesOf(df)) =>
                  /\ series = <<>>
                  /\ render_device_plots(d, store).title =
                         "No data for this device (yet)."
            /\ (plots.title = "samples" /\ plots.device = d) =>
                  /\ \A i \in 1..Len(plots.series) : plots.series[i].device = d
                  /\ \A i \in 1..(Len(plots.series) - 1) :
                        ~TimeLess(plots.series[i + 1].time, plots.series[i].time)

C14_Witness ==
    /\ plots.title = "samples"
    /\ \E d \in Devices :
          /\ SeriesFor(store, d) # DeviceRows(StoreFrame(store), d)
          /\ plots.series = SeriesFor(store, d)
    /\ \E d \in Devices : d \notin DevicesOf(StoreFrame(store))

\* C15: a column is in the result of infer_parameter_columns exactly when it
\* is a column of the frame other than time, device and automatedMode with a
\* cell that reads as a number; no column is there twice; the columns of
\* FIELDS come first, in the order of FIELDS, and the others follow in the
\* order of the frame.
C15_InferParameterColumns ==
    lastOp = "infer" =>
        /\ \A c \in ColNames \cup Range(FIELDS) \cup {"device"} :
              c \in Range(params) <=>
                  /\ c \in Range(frame.cols)
                  /\ c \notin {"time", "device", "automatedMode"}
                  /\ \E i \in 1..Len(frame.rows) : frame.rows[i][c] = "num"
        /\ Range(params) \subseteq Range(frame.cols)
        /\ Cardinality(Range(params)) = Len(params)
        /\ \A i, j \in 1..Len(params) :
              i < j =>
                  LET a == params[i]
                      b == params[j]
                  IN  /\ ~(a \notin Range(FIELDS) /\ b \in Range(FIELDS))
                      /\ (a \in Range(FIELDS) /\ b \in Range(FIELDS)) =>
                            IndexOf(FIELDS, a) < IndexOf(FIELDS, b)
                      /\ (a \notin Range(FIELDS) /\ b \notin Range(FIELDS)) =>
                            IndexOf(frame.cols, a) < IndexOf(frame.cols, b)

C15_Witness ==
    /\ lastOp = "infer"
    /\ frame.cols = <<"table", "temperature">>
    /\ params = <<"temperature", "table">>

NoDeviceSelected ==
    [title |-> "No device selected.", device |-> <<>>, series |-> <<>>,
     graphs |-> <<>>]

\* C16: on an empty store update_device_table returns no row, select_device
\* returns None and render_device_plots returns "No device selected."
\* without a plot, and none of them raises; once the callbacks have run on
\* an empty store, the page shows exactly that.
C16_EmptyCase ==
    store = <<>> =>
        /\ update_device_table(store) = <<>>
        /\ \A rows \in {<<>>, <<0>>, <<1>>} :
              select_device(rows, update_device_table(store)) = <<>>
        /\ \A d \in Devices \cup {<<>>} :
              render_device_plots(d, store) = NoDeviceSelected
        /\ (pending = {} /\ lastOp = "boot_ok") =>
              /\ table = <<>>
              /\ selected_device = <<>>
              /\ plots = NoDeviceSelected

C16_Witness ==
    store = <<>> /\ pending = {} /\ lastOp = "boot_ok" /\ source # <<>>

====
